---- MODULE Spec2Model ----
(***************************************************************************)
(* Monitoring and alerting engine of aiagents-stock.                       *)
(*                                                                         *)
(*   - LowPriceBullMonitor (src/low_price_bull_monitor.py): the SQLite     *)
(*     tables monitored_stocks and sell_alerts and the methods on them.    *)
(*   - StockMonitorDatabase (src/monitor_db.py): the tables                *)
(*     monitored_stocks, price_history and notifications.                  *)
(*   - SmartMonitorDeepSeek (src/smart_monitor_deepseek.py): the decision  *)
(*     layer, analyze_stock_and_decide and _parse_decision.                *)
(*                                                                         *)
(* A table is a set of rows (records).  A timestamp is a number of minutes *)
(* since the start of day 0; the date of a timestamp is its day number.    *)
(* SQL NULL is written NULL.  Columns that are only written and never read *)
(* by any method (stock_name, alert_reason, current_price, ma5, ma20 of    *)
(* sell_alerts) are left out of the rows.                                  *)
(***************************************************************************)
EXTENDS Integers, Sequences, FiniteSets, TLC

VARIABLES
    now,                \* wall clock, minutes since the start of day 0
    monitored_stocks,   \* LowPriceBullMonitor: table monitored_stocks
    next_stock_id,      \* its AUTOINCREMENT counter
    sell_alerts,        \* LowPriceBullMonitor: table sell_alerts
    next_alert_id,      \* its AUTOINCREMENT counter
    last,               \* the call made by the latest step and what it returned
    pc,                 \* per worker: the statement of add_sell_alert it is at
    loc,                \* per worker: the arguments of its call in progress
    reply,              \* SmartMonitorDeepSeek: the text the model answers with
    llm_fails,          \* whether chat_completion raises (HTTP error, timeout)
    has_position,       \* the has_position argument of analyze_stock_and_decide
    opened_today,       \* whether the position was bought on the day of the call
    gate_out,           \* what analyze_stock_and_decide / _parse_decision returned
    samples,            \* evaluator: per symbol, the moving averages of its last sample
    cycle_in,           \* evaluator: the inputs of the latest evaluation of a position
    md_stocks,          \* StockMonitorDatabase: table monitored_stocks
    next_md_id,         \* its AUTOINCREMENT counter
    price_history,      \* StockMonitorDatabase: table price_history
    next_price_id,      \* its AUTOINCREMENT counter
    notifications,      \* StockMonitorDatabase: table notifications
    next_notification_id,
    weekday,            \* Beijing time of a session query: day of the week, Monday = 0
    tod,                \* Beijing time of a session query: seconds since midnight
    session_out,        \* what get_trading_session / is_trading_time returned
    running,            \* scheduler: the position each evaluation thread works on
    faults,             \* cycle: the external call that fails for each position
    cycle,              \* cycle: next position, results so far, aborted or not
    outbox              \* delivery pass: ids of the alerts still to send

gateVars == <<reply, llm_fails, has_position, opened_today, gate_out>>

evalVars == <<samples, cycle_in>>

\* the state of the components around the two stores and the decision layer
mdVars == <<md_stocks, next_md_id, price_history, next_price_id, notifications,
           next_notification_id>>

sessVars == <<weekday, tod, session_out>>

loopVars == <<running, faults, cycle, outbox>>

extVars == <<evalVars, mdVars, sessVars, loopVars>>

vars == <<now, monitored_stocks, next_stock_id, sell_alerts, next_alert_id,
          last, pc, loc, reply, llm_fails, has_position, opened_today, gate_out,
          samples, cycle_in, md_stocks, next_md_id, price_history, next_price_id,
          notifications, next_notification_id, weekday, tod, session_out,
          running, faults, cycle, outbox>>

----------------------------------------------------------------------------
(* Bounds of the model *)

MaxDay == 1
MaxSlot == 2
MaxStockId == 2
MaxAlertId == 3
MaxBodyLen == 3
MaxSamples == 3

(* Program constants *)

MinutesPerDay == 24 * 60
SlotMinutes == MinutesPerDay \div 48      \* granularity of the clock: 30 minutes

NULL == 0 - 1

\* has_recent_notification(..., minutes: int = 60): the cool-down window
CoolDownMinutes == 60

Codes == {"600519", "000001"}
Prices == {10, 12}
BuyDates == {NULL, 0}                     \* buy_date = None, or an explicit date
PurgeDays == {0, 1}                       \* the days argument of clear_old_alerts
Reasons == {"manual", "sold"}
AlertTypes == {"holding_days", "ma_cross"}
Workers == {"w1", "w2"}

Day(t) == t \div MinutesPerDay
Slot(t) == (t % MinutesPerDay) \div SlotMinutes

----------------------------------------------------------------------------
(* LowPriceBullMonitor: schema *)

\* UNIQUE(stock_code, status) of monitored_stocks
\* a table without the UNIQUE(stock_code, status) constraint
NoUniqueConstraint(rows) == TRUE

UniqueCodeStatus(rows) ==
    \A r1 \in rows : \A r2 \in rows :
        (r1.stock_code = r2.stock_code /\ r1.status = r2.status) => r1.id = r2.id

\* SELECT id FROM monitored_stocks WHERE stock_code = ? AND status = 'holding'
HoldingRows(rows, code) ==
    {r \in rows : r.stock_code = code /\ r.status = "holding"}

RemovedRows(rows, code) ==
    {r \in rows : r.stock_code = code /\ r.status = "removed"}

\* a freshly inserted row: status and holding_days take their column defaults
NewStockRow(id, code, price, date, t) ==
    [id |-> id, stock_code |-> code, buy_price |-> price, buy_date |-> date,
     holding_days |-> 0, status |-> "holding", add_time |-> t,
     remove_time |-> NULL, remove_reason |-> "NULL"]

----------------------------------------------------------------------------
(* LowPriceBullMonitor.add_stock and remove_stock: the table they leave and  *)
(* the (success, message) pair they return.  An sqlite3 error raised by a   *)
(* statement is caught by the method's except clause; the connection is     *)
(* dropped without commit, so the table is as before the call.              *)

\* add_stock that inserts without looking for a holding row, on a table that
\* was created without the UNIQUE key
add_stock_unchecked(rows, id, code, price, buy_date, t) ==
    LET date == IF buy_date = NULL THEN Day(t) ELSE buy_date
    IN  [rows |-> rows \cup {NewStockRow(id, code, price, date, t)},
         ok |-> TRUE, msg |-> "added"]

\* add_stock written as INSERT OR REPLACE: the holding row of the symbol is
\* replaced by the new one
add_stock_replace(rows, id, code, price, buy_date, t) ==
    LET date == IF buy_date = NULL THEN Day(t) ELSE buy_date
    IN  [rows |-> (rows \ HoldingRows(rows, code))
                     \cup {NewStockRow(id, code, price, date, t)},
         ok |-> TRUE, msg |-> "added"]

add_stock_result(rows, id, code, price, buy_date, t) ==
    LET date == IF buy_date = NULL THEN Day(t) ELSE buy_date
        ins  == rows \cup {NewStockRow(id, code, price, date, t)}
    IN  IF HoldingRows(rows, code) # {}
          THEN [rows |-> rows, ok |-> FALSE, msg |-> "already_monitored"]
        ELSE IF ~UniqueCodeStatus(ins)
          THEN [rows |-> rows, ok |-> FALSE, msg |-> "add_failed"]
        ELSE [rows |-> ins, ok |-> TRUE, msg |-> "added"]

\* remove_stock without the SELECT that looks for a holding row: the DELETE
\* and the UPDATE run and are committed whatever the table holds
remove_stock_unchecked(rows, code, reason, t) ==
    LET kept == rows \ RemovedRows(rows, code)
    IN  [rows |-> {IF r.stock_code = code /\ r.status = "holding"
                     THEN [r EXCEPT !.status = "removed", !.remove_time = t,
                                    !.remove_reason = reason]
                     ELSE r : r \in kept},
         ok |-> TRUE, msg |-> "removed"]

\* remove_stock whose DELETE has no status filter
remove_stock_delete_all(rows, code, reason, t) ==
    IF HoldingRows(rows, code) = {}
      THEN [rows |-> rows, ok |-> FALSE, msg |-> "not_monitored"]
      ELSE [rows |-> {r \in rows : r.stock_code # code}, ok |-> TRUE,
            msg |-> "removed"]

\* remove_stock without the DELETE of the removed rows
remove_stock_no_delete(rows, code, reason, t) ==
    LET upd == {IF r.stock_code = code /\ r.status = "holding"
                  THEN [r EXCEPT !.status = "removed", !.remove_time = t,
                                 !.remove_reason = reason]
                  ELSE r : r \in rows}
    IN  IF HoldingRows(rows, code) = {}
          THEN [rows |-> rows, ok |-> FALSE, msg |-> "not_monitored"]
        ELSE IF ~UniqueCodeStatus(upd)
          THEN [rows |-> rows, ok |-> FALSE, msg |-> "remove_failed"]
        ELSE [rows |-> upd, ok |-> TRUE, msg |-> "removed"]


remove_stock_result(rows, code, reason, t) ==
    LET kept == rows \ RemovedRows(rows, code)
        upd  == {IF r.stock_code = code /\ r.status = "holding"
                   THEN [r EXCEPT !.status = "removed", !.remove_time = t,
                                  !.remove_reason = reason]
                   ELSE r : r \in kept}
    IN  IF HoldingRows(rows, code) = {}
          THEN [rows |-> rows, ok |-> FALSE, msg |-> "not_monitored"]
        ELSE IF ~UniqueCodeStatus(upd)
          THEN [rows |-> rows, ok |-> FALSE, msg |-> "remove_failed"]
        ELSE [rows |-> upd, ok |-> TRUE, msg |-> "removed"]

----------------------------------------------------------------------------
(* LowPriceBullMonitor: sell_alerts *)

\* the SELECT of add_sell_alert with is_sent = 1 for is_sent = 0
SentAlerts(alerts, code, atype) ==
    {a \in alerts : a.stock_code = code /\ a.alert_type = atype /\ a.is_sent = 1}

\* SELECT id FROM sell_alerts WHERE stock_code = ? AND alert_type = ? AND is_sent = 0
UnsentAlerts(alerts, code, atype) ==
    {a \in alerts : a.stock_code = code /\ a.alert_type = atype /\ a.is_sent = 0}

\* INSERT INTO sell_alerts (...): is_sent takes its column default 0
InsertAlert(alerts, id, code, atype, t) ==
    alerts \cup {[id |-> id, stock_code |-> code, alert_type |-> atype,
                  alert_time |-> t, is_sent |-> 0]}

\* add_sell_alert without its SELECT: the INSERT alone
add_sell_alert_unchecked(alerts, id, code, atype, t) ==
    [alerts |-> InsertAlert(alerts, id, code, atype, t), ok |-> TRUE]

add_sell_alert_result(alerts, id, code, atype, t) ==
    IF UnsentAlerts(alerts, code, atype) # {}
      THEN [alerts |-> alerts, ok |-> FALSE]
      ELSE [alerts |-> InsertAlert(alerts, id, code, atype, t), ok |-> TRUE]

\* UPDATE sell_alerts SET is_sent = 1 WHERE id = ?
mark_alert_sent_result(alerts, alert_id) ==
    {IF a.id = alert_id THEN [a EXCEPT !.is_sent = 1] ELSE a : a \in alerts}

\* a purge by age alone, as a DELETE without "AND is_sent = 1" would do
clear_old_alerts_by_age(alerts, days, t) ==
    {a \in alerts : ~(Day(a.alert_time) < Day(t) - days)}

\* DELETE FROM sell_alerts WHERE alert_time < cutoff_date AND is_sent = 1, where
\* cutoff_date is the date (now - days) as "YYYY-MM-DD" and alert_time is
\* "YYYY-MM-DD HH:MM:SS": as strings, alert_time < cutoff_date exactly when the
\* date of alert_time is before the cutoff date.
clear_old_alerts_result(alerts, days, t) ==
    {a \in alerts : ~(Day(a.alert_time) < Day(t) - days /\ a.is_sent = 1)}

\* get_pending_alerts without the WHERE is_sent = 0
get_pending_alerts_any(alerts) == alerts

\* SELECT * FROM sell_alerts WHERE is_sent = 0
get_pending_alerts(alerts) == {a \in alerts : a.is_sent = 0}

\* SELECT * FROM monitored_stocks WHERE status = 'holding'
get_monitored_stocks(rows) == {r \in rows : r.status = "holding"}

\* update_holding_days that stores the age of the row, counted from add_time
update_holding_days_since_add(rows, t) ==
    {IF r.status = "holding"
       THEN [r EXCEPT !.holding_days = Day(t) - Day(r.add_time)]
       ELSE r : r \in rows}

\* lines 208-226: for every holding row, holding_days = (today - buy_date).days,
\* buy_date being a well-formed "YYYY-MM-DD"; the difference of two dates is a
\* signed number of days
update_holding_days_result(rows, t) ==
    {IF r.status = "holding"
       THEN [r EXCEPT !.holding_days = Day(t) - r.buy_date]
       ELSE r : r \in rows}

----------------------------------------------------------------------------
(* SmartMonitorDeepSeek.is_trading_time and get_trading_session.  Both read *)
(* datetime.now(beijing_tz): weekday() of the date and time() of the day.   *)
(* A time of day is a number of seconds since midnight; a time between two  *)
(* whole seconds compares with the cutoffs as the next whole second does.   *)
(* Sessions: closed = 休市, pre_open_auction = 集合竞价, morning = 上午盘,    *)
(* lunch_break = 午间休市, afternoon = 下午盘, closing = 尾盘,                *)
(* post_close = 盘后.                                                       *)

\* datetime.time(hour, minute)
time(hour, minute) == (hour * 60 + minute) * 60

SessionInfo(session, volatility, hour, can_trade) ==
    [session |-> session, volatility |-> volatility, beijing_hour |-> hour,
     can_trade |-> can_trade]

\* get_trading_session whose auction branch reports can_trade = True
get_trading_session_auction_open(wd, current_time) ==
    LET hour == current_time \div 3600
    IN  IF wd >= 5
          THEN SessionInfo("closed", "none", hour, FALSE)
        ELSE IF time(9, 0) <= current_time /\ current_time < time(9, 30)
          THEN SessionInfo("pre_open_auction", "high", hour, TRUE)
        ELSE IF time(9, 30) <= current_time /\ current_time <= time(11, 30)
          THEN SessionInfo("morning", "high", hour, TRUE)
        ELSE IF time(11, 30) < current_time /\ current_time < time(13, 0)
          THEN SessionInfo("lunch_break", "none", hour, FALSE)
        ELSE IF time(13, 0) <= current_time /\ current_time <= time(15, 0)
          THEN IF current_time >= time(14, 30)
                 THEN SessionInfo("closing", "high", hour, TRUE)
                 ELSE SessionInfo("afternoon", "medium", hour, TRUE)
        ELSE SessionInfo("post_close", "none", hour, FALSE)

\* get_trading_session whose auction branch has no lower end: the hours
\* before 09:00 count as the auction
get_trading_session_early_auction(wd, current_time) ==
    LET hour == current_time \div 3600
    IN  IF wd >= 5
          THEN SessionInfo("closed", "none", hour, FALSE)
        ELSE IF current_time < time(9, 30)
          THEN SessionInfo("pre_open_auction", "high", hour, FALSE)
        ELSE IF time(9, 30) <= current_time /\ current_time <= time(11, 30)
          THEN SessionInfo("morning", "high", hour, TRUE)
        ELSE IF time(11, 30) < current_time /\ current_time < time(13, 0)
          THEN SessionInfo("lunch_break", "none", hour, FALSE)
        ELSE IF time(13, 0) <= current_time /\ current_time <= time(15, 0)
          THEN IF current_time >= time(14, 30)
                 THEN SessionInfo("closing", "high", hour, TRUE)
                 ELSE SessionInfo("afternoon", "medium", hour, TRUE)
        ELSE SessionInfo("post_close", "none", hour, FALSE)

\* lines 84-155
get_trading_session(wd, current_time) ==
    LET hour == current_time \div 3600
    IN  IF wd >= 5
          THEN SessionInfo("closed", "none", hour, FALSE)
        ELSE IF time(9, 0) <= current_time /\ current_time < time(9, 30)
          THEN SessionInfo("pre_open_auction", "high", hour, FALSE)
        ELSE IF time(9, 30) <= current_time /\ current_time <= time(11, 30)
          THEN SessionInfo("morning", "high", hour, TRUE)
        ELSE IF time(11, 30) < current_time /\ current_time < time(13, 0)
          THEN SessionInfo("lunch_break", "none", hour, FALSE)
        ELSE IF time(13, 0) <= current_time /\ current_time <= time(15, 0)
          THEN IF current_time >= time(14, 30)
                 THEN SessionInfo("closing", "high", hour, TRUE)
                 ELSE SessionInfo("afternoon", "medium", hour, TRUE)
        ELSE SessionInfo("post_close", "none", hour, FALSE)

\* is_trading_time whose sessions leave out their last instant
is_trading_time_half_open(wd, current_time) ==
    IF wd >= 5 THEN FALSE
    ELSE \/ time(9, 30) <= current_time /\ current_time < time(11, 30)
         \/ time(13, 0) <= current_time /\ current_time < time(15, 0)

\* lines 53-74
is_trading_time(wd, current_time) ==
    IF wd >= 5 THEN FALSE
    ELSE \/ time(9, 30) <= current_time /\ current_time <= time(11, 30)
         \/ time(13, 0) <= current_time /\ current_time <= time(15, 0)

\* what a query returned: the method called, the session information or the
\* boolean
SessionOut(called, info, is_trading) ==
    [called |-> called, info |-> info, is_trading |-> is_trading]

\* a cycle before its first position
CycleOrder == <<"600519", "000001">>

NoCycleRun ==
    [next |-> 1, results |-> [c \in Codes |-> "none"], aborted |-> FALSE]

NoSession == SessionOut("none", SessionInfo("none", "none", 0, FALSE), FALSE)

\* the instants around each cutoff, the ends of the day and the middle of
\* each session
Cutoffs == {time(9, 0), time(9, 30), time(11, 30), time(13, 0), time(14, 30), time(15, 0)}

SessionTimes ==
    UNION {{c - 1, c, c + 1} : c \in Cutoffs}
    \cup {0, time(8, 0), time(10, 30), time(12, 0), time(14, 0), time(20, 0),
          time(24, 0) - 1}

Weekdays == 0..6

----------------------------------------------------------------------------
(* StockMonitorDatabase: the tables monitored_stocks, price_history and     *)
(* notifications.  Each method opens its own connection and commits before  *)
(* it returns.  entry_range is stored as JSON {"min": .., "max": ..}; the   *)
(* row keeps its two numbers.  CURRENT_TIMESTAMP is the time of the call.   *)

\* INSERT INTO monitored_stocks (...): no look-up of the symbol comes first
add_monitored_stock_result(rows, id, symbol, emin, emax, tp, sl) ==
    rows \cup {[id |-> id, symbol |-> symbol, entry_min |-> emin, entry_max |-> emax,
                take_profit |-> tp, stop_loss |-> sl, current_price |-> NULL,
                last_checked |-> NULL]}

\* UPDATE monitored_stocks SET current_price = ?, last_checked = CURRENT_TIMESTAMP
update_stock_price_rows(rows, stock_id, price, t) ==
    {IF r.id = stock_id THEN [r EXCEPT !.current_price = price, !.last_checked = t]
     ELSE r : r \in rows}

\* update_last_checked whose UPDATE has no WHERE id = ?
update_last_checked_every_row(rows, stock_id, t) ==
    {[r EXCEPT !.last_checked = t] : r \in rows}

\* UPDATE monitored_stocks SET last_checked = CURRENT_TIMESTAMP WHERE id = ?
update_last_checked_result(rows, stock_id, t) ==
    {IF r.id = stock_id THEN [r EXCEPT !.last_checked = t] ELSE r : r \in rows}

\* remove_monitored_stock: the three DELETEs and the value returned, the
\* rowcount of the last one being positive
remove_monitored_stock_result(rows, history, notes, stock_id) ==
    [history |-> {h \in history : h.stock_id # stock_id},
     notes   |-> {n \in notes : n.stock_id # stock_id},
     rows    |-> {r \in rows : r.id # stock_id},
     ok      |-> \E r \in rows : r.id = stock_id]

\* INSERT INTO price_history (stock_id, price)
update_stock_price_history(history, id, stock_id, price, t) ==
    history \cup {[id |-> id, stock_id |-> stock_id, price |-> price, timestamp |-> t]}

\* SELECT COUNT(*) FROM notifications WHERE stock_id = ? AND type = ?
\*   AND datetime(triggered_at) > datetime('now', '-' || ? || ' minutes')
has_recent_notification(notes, stock_id, type, minutes, t) ==
    \E n \in notes :
        n.stock_id = stock_id /\ n.type = type /\ n.triggered_at > t - minutes

\* add_notification that closes its connection without commit: the INSERT is
\* rolled back
add_notification_uncommitted(notes, id, stock_id, type, t) == notes

\* INSERT INTO notifications (stock_id, type, message): triggered_at and sent
\* take their column defaults
add_notification_result(notes, id, stock_id, type, t) ==
    notes \cup {[id |-> id, stock_id |-> stock_id, type |-> type,
                 triggered_at |-> t, sent |-> FALSE]}

\* SELECT ... FROM notifications n JOIN monitored_stocks s ON n.stock_id = s.id
\* WHERE n.sent = FALSE
get_pending_notifications(notes, rows) ==
    {n \in notes : ~n.sent /\ \E r \in rows : r.id = n.stock_id}

\* UPDATE notifications SET sent = TRUE WHERE id = ?
mark_notification_sent_result(notes, notification_id) ==
    {IF n.id = notification_id THEN [n EXCEPT !.sent = TRUE] ELSE n : n \in notes}

\* DELETE FROM notifications
clear_all_notifications_result(notes) == {}

----------------------------------------------------------------------------
(* SignalEvaluator: the rules that turn the data of one position into at    *)
(* most one trigger per cycle.  Prices are in tenths of a yuan.  The names  *)
(* of the rules are the alert types the two stores use: holding_days and    *)
(* ma_cross (sell_alerts.alert_type), entry, take_profit and stop_loss      *)
(* (notifications.type).                                                    *)

MaxHoldingDays == 5

\* the moving averages of a sample: MA5 above, equal to and below MA20
MASamples ==
    {[ma5 |-> 11, ma20 |-> 10], [ma5 |-> 10, ma20 |-> 10], [ma5 |-> 9, ma20 |-> 10]}

NoSample == [ma5 |-> NULL, ma20 |-> NULL]

\* the rules in their order of priority
Rules == <<"holding_days", "ma_cross", "take_profit", "stop_loss", "entry">>

\* rules whose ma_cross looks at the current sample only
FiresOnCurrentSample(rule, in) ==
    CASE rule = "holding_days" -> in.holding_days >= MaxHoldingDays
      [] rule = "ma_cross"     -> in.cur.ma5 < in.cur.ma20
      [] rule = "take_profit"  -> in.take_profit # NULL /\ in.price >= in.take_profit
      [] rule = "stop_loss"    -> in.stop_loss # NULL /\ in.price <= in.stop_loss
      [] rule = "entry"        -> /\ ~in.entered
                                  /\ in.entry_min <= in.price
                                  /\ in.price <= in.entry_max
      [] OTHER                 -> FALSE

Fires(rule, in) ==
    CASE rule = "holding_days" -> in.holding_days >= MaxHoldingDays
      [] rule = "ma_cross"     -> /\ in.prev # NoSample
                                  /\ in.prev.ma5 >= in.prev.ma20
                                  /\ in.cur.ma5 < in.cur.ma20
      [] rule = "take_profit"  -> in.take_profit # NULL /\ in.price >= in.take_profit
      [] rule = "stop_loss"    -> in.stop_loss # NULL /\ in.price <= in.stop_loss
      [] rule = "entry"        -> /\ ~in.entered
                                  /\ in.entry_min <= in.price
                                  /\ in.price <= in.entry_max
      [] OTHER                 -> FALSE

\* an evaluator that keeps the last rule that fires
LastTrigger(in) ==
    LET firing == {i \in 1..Len(Rules) : Fires(Rules[i], in)}
    IN  IF firing = {} THEN "none"
        ELSE Rules[CHOOSE i \in firing : \A j \in firing : i >= j]

\* the first rule that fires, or "none"
FirstTrigger(in) ==
    LET firing == {i \in 1..Len(Rules) : Fires(Rules[i], in)}
    IN  IF firing = {} THEN "none"
        ELSE Rules[CHOOSE i \in firing : \A j \in firing : i <= j]

EvalInput(code, days, prev, cur, price, tp, sl, emin, emax, entered) ==
    [code |-> code, holding_days |-> days, prev |-> prev, cur |-> cur,
     price |-> price, take_profit |-> tp, stop_loss |-> sl,
     entry_min |-> emin, entry_max |-> emax, entered |-> entered]

\* thresholds of the evaluated position: take-profit 12.00, stop-loss 9.50,
\* entry range 10.00 to 11.00
EvalTakeProfit == 120
EvalStopLoss == 95
EvalEntryMin == 100
EvalEntryMax == 110
EvalPrices == {95, 100, 115, 123}

NoCycle == EvalInput("none", 0, NoSample, NoSample, 0, NULL, NULL, 0, 0, TRUE)
NoSamples == [c \in Codes |-> NoSample]

EvalIdle ==
    /\ samples = NoSamples
    /\ cycle_in = NoCycle

MdIdle ==
    /\ md_stocks = {}
    /\ next_md_id = 1
    /\ price_history = {}
    /\ next_price_id = 1
    /\ notifications = {}
    /\ next_notification_id = 1

SessIdle ==
    /\ weekday = 0
    /\ tod = 0
    /\ session_out = NoSession

SchedIdle == running = [w \in Workers |-> "none"]

CycleIdle ==
    /\ faults = [c \in Codes |-> "none"]
    /\ cycle = NoCycleRun

DeliveryIdle == outbox = {}

LoopIdle == SchedIdle /\ CycleIdle /\ DeliveryIdle

ExtIdle == EvalIdle /\ MdIdle /\ SessIdle /\ LoopIdle

----------------------------------------------------------------------------
(* SmartMonitorDeepSeek._parse_decision                                     *)
(*                                                                          *)
(* The reply of the model is a sequence of tokens:                          *)
(*   "FJ"  the fence with its tag,  ```json        "F"   a bare fence, ```  *)
(*   "nl"  a newline                               "w"   prose              *)
(*   "{" and "}"                                                            *)
(*   "k:"  the key of a nested object,  "key_price_levels":                 *)
(*   a member token: the members of an object, braces not included          *)
(*   "num"   a JSON number, for example 42                                  *)
(*   "list3" the JSON array ["action", "confidence", "reasoning"]           *)
(* str.find and slicing work on offsets; every offset the method computes   *)
(* falls between two tokens, so an offset is the number of tokens before    *)
(* it.  Only the slice [start:-1] cuts inside a token (its last character). *)

MemberTokens ==
    {"m_sell", "m_buy", "m_foo", "m_risk", "m_noaction", "m_noconf", "m_noreason"}
ScalarTokens == {"num", "list3"}

\* the keys and values of the members a member token stands for
Members(m) ==
    LET all == {"action", "confidence", "reasoning"}
        rec(keys, action, conf, risk, size) ==
            [keys |-> keys, action |-> action, confidence |-> conf,
             risk_level |-> risk, position_size_pct |-> size]
    IN  CASE m = "m_sell"     -> rec(all, "SELL", 80, "unset", 0)
          [] m = "m_buy"      -> rec(all, "BUY", 150, "unset", 0)
          [] m = "m_foo"      -> rec(all, "FOO", 50, "unset", 0)
          [] m = "m_risk"     -> rec(all \cup {"risk_level", "position_size_pct"},
                                     "HOLD", 60, "low", 10)
          [] m = "m_noaction" -> rec(all \ {"action"}, "unset", 80, "unset", 0)
          [] m = "m_noconf"   -> rec(all \ {"confidence"}, "SELL", 0, "unset", 0)
          [] m = "m_noreason" -> rec(all \ {"reasoning"}, "SELL", 80, "unset", 0)
          [] OTHER            -> rec({}, "unset", 0, "unset", 0)

\* the tokens that hold the three backquotes
Fences == {"F", "FJ"}

\* str.find: the offset of the first token at or after offset from that
\* holds the substring (is one of toks), or -1
Find(text, toks, from) ==
    LET hits == {i \in (from + 1)..Len(text) : text[i] \in toks}
    IN  IF hits = {} THEN 0 - 1
        ELSE (CHOOSE i \in hits : \A j \in hits : i <= j) - 1

\* str.rfind
RFind(text, toks) ==
    LET hits == {i \in 1..Len(text) : text[i] \in toks}
    IN  IF hits = {} THEN 0 - 1
        ELSE (CHOOSE i \in hits : \A j \in hits : i >= j) - 1

\* the text without its last character
DropLastChar(text) ==
    IF text = <<>> THEN <<>>
    ELSE LET tok  == text[Len(text)]
             init == SubSeq(text, 1, Len(text) - 1)
         IN  IF tok \in {"{", "}", "nl"} THEN init
             ELSE IF tok \in {"w", "num"} THEN Append(init, tok)
             ELSE Append(init, "w")

\* text[start:end] for start >= 0 and end >= -1
Slice(text, start, end) ==
    IF end = 0 - 1 THEN DropLastChar(SubSeq(text, start + 1, Len(text)))
    ELSE SubSeq(text, start + 1, IF end < Len(text) THEN end ELSE Len(text))

RECURSIVE LStrip(_)
LStrip(text) ==
    IF text # <<>> /\ Head(text) = "nl" THEN LStrip(Tail(text)) ELSE text

RECURSIVE RStrip(_)
RStrip(text) ==
    IF text # <<>> /\ text[Len(text)] = "nl"
      THEN RStrip(SubSeq(text, 1, Len(text) - 1)) ELSE text

\* str.strip
Strip(text) == RStrip(LStrip(text))

Has(text, tok) == \E i \in 1..Len(text) : text[i] = tok

\* lines 502-516: the text handed to json.loads
ExtractJson(ai_response) ==
    IF Has(ai_response, "FJ")
      THEN LET json_start == Find(ai_response, {"FJ"}, 0) + 1
               json_end   == Find(ai_response, Fences, json_start)
           IN  Strip(Slice(ai_response, json_start, json_end))
    ELSE IF Has(ai_response, "F")
      THEN LET first_tick == Find(ai_response, Fences, 0)
               json_start == Find(ai_response, {"nl"}, first_tick) + 1
               json_end   == Find(ai_response, Fences, json_start)
           IN  Strip(Slice(ai_response, json_start, json_end))
    ELSE IF Has(ai_response, "{") /\ Has(ai_response, "}")
      THEN LET start_idx == Find(ai_response, {"{"}, 0)
               end_idx   == RFind(ai_response, {"}"}) + 1
           IN  Slice(ai_response, start_idx, end_idx)
    ELSE ai_response

\* whether the tokens, whitespace removed, are one JSON object:
\*   { }   { members }   { members "k:" object }   { "k:" object }
RECURSIVE IsObject(_)
IsObject(t) ==
    /\ Len(t) >= 2
    /\ t[1] = "{"
    /\ t[Len(t)] = "}"
    /\ LET body == SubSeq(t, 2, Len(t) - 1)
           rest == IF body # <<>> /\ body[1] \in MemberTokens THEN Tail(body) ELSE body
       IN  \/ rest = <<>>
           \/ rest # <<>> /\ rest[1] = "k:" /\ IsObject(Tail(rest))

\* json.loads: an object with its top-level keys, another JSON value, or a
\* JSONDecodeError
JsonLoads(json_str) ==
    LET t == SelectSeq(json_str, LAMBDA tok : tok # "nl")
        none == Members("none")
    IN  IF Len(t) = 1 /\ t[1] \in ScalarTokens
          THEN [kind |-> t[1], keys |-> {}, val |-> none]
        ELSE IF IsObject(t)
          THEN LET m == IF t[2] \in MemberTokens THEN Members(t[2]) ELSE none
                   nested == IF Has(t, "k:") THEN {"key_price_levels"} ELSE {}
               IN  [kind |-> "object", keys |-> m.keys \cup nested, val |-> m]
        ELSE [kind |-> "JSONDecodeError", keys |-> {}, val |-> none]

RequiredFields == {"action", "confidence", "reasoning"}

\* lines 518-532: the exception the try block ends with, or "none"
\*   'action' not in 42 raises TypeError; a list that holds the three names
\*   passes the loop and has no setdefault
ParseException(loaded) ==
    CASE loaded.kind = "JSONDecodeError" -> "JSONDecodeError"
      [] loaded.kind = "num"   -> "TypeError"
      [] loaded.kind = "list3" -> "AttributeError"
      [] loaded.kind = "object" /\ ~(RequiredFields \subseteq loaded.keys) -> "ValueError"
      [] OTHER -> "none"

\* an except clause that names only the errors of json.loads and of the
\* field check
CaughtValueErrors(exc) == exc \in {"JSONDecodeError", "ValueError"}

\* line 534: except Exception
Caught(exc) == TRUE

Decision(raised, action, conf, reasoning, size, risk) ==
    [raised |-> raised, action |-> action, confidence |-> conf,
     reasoning |-> reasoning, position_size_pct |-> size,
     stop_loss_pct |-> 5, take_profit_pct |-> 10, risk_level |-> risk]

\* lines 537-545: the conservative decision
FallbackDecision == Decision(FALSE, "HOLD", 0, "parse_failed", 0, "high")

_parse_decision(ai_response) ==
    LET loaded == JsonLoads(ExtractJson(ai_response))
        exc    == ParseException(loaded)
        d      == loaded.val
    IN  IF exc = "none"
          THEN Decision(FALSE, d.action, d.confidence, "model",
                        IF "position_size_pct" \in loaded.keys
                          THEN d.position_size_pct ELSE 20,
                        IF "risk_level" \in loaded.keys
                          THEN d.risk_level ELSE "medium")
        ELSE IF Caught(exc) THEN FallbackDecision
        ELSE Decision(TRUE, "none", 0, exc, 0, "none")

\* lines 442-476 of _build_a_stock_prompt: the position section of the prompt.
\* When a position is passed the prompt states that the stock can be sold,
\* whatever the day it was bought on.
build_a_stock_prompt(position) ==
    IF position
      THEN [section |-> "position", t_plus_one |-> "can_sell"]
      ELSE [section |-> "no_position", t_plus_one |-> "none"]

Output(done, success, error, prompt, decision) ==
    [done |-> done, success |-> success, error |-> error, prompt |-> prompt,
     decision |-> decision]

NoDecision == Decision(FALSE, "none", 0, "none", 0, "none")
NoOutput == Output(FALSE, FALSE, "none", build_a_stock_prompt(FALSE), NoDecision)

\* lines 353-371: what analyze_stock_and_decide returns.  chat_completion
\* re-raises what requests raises; the except clause turns any exception of
\* the try block into success = False.
\* analyze_stock_and_decide without the try / except of lines 353-371: the
\* exception of chat_completion or of _parse_decision leaves the method
analyze_stock_and_decide_uncaught(position, fails, ai_response) ==
    LET prompt   == build_a_stock_prompt(position)
        decision == _parse_decision(ai_response)
    IN  IF fails
          THEN Output(TRUE, FALSE, "api_error", prompt,
                      Decision(TRUE, "none", 0, "api_error", 0, "none"))
        ELSE IF decision.raised
          THEN Output(TRUE, FALSE, decision.reasoning, prompt, decision)
        ELSE Output(TRUE, TRUE, "none", prompt, decision)

analyze_stock_and_decide_result(position, fails, ai_response) ==
    LET prompt   == build_a_stock_prompt(position)
        decision == _parse_decision(ai_response)
    IN  IF fails
          THEN Output(TRUE, FALSE, "api_error", prompt, NoDecision)
        ELSE IF decision.raised
          THEN Output(TRUE, FALSE, decision.reasoning, prompt, NoDecision)
        ELSE Output(TRUE, TRUE, "none", prompt, decision)

----------------------------------------------------------------------------
(* The calls, one action per method of LowPriceBullMonitor *)

\* text: the reason or the alert type passed; num: the price, id or days passed
Call(op, code, text, num, ok, msg) ==
    [op |-> op, code |-> code, text |-> text, num |-> num, ok |-> ok, msg |-> msg]

WorkersIdle == [w \in Workers |-> "idle"]
NoLoc == [w \in Workers |-> [code |-> "none", atype |-> "none"]]

add_stock(code, price, buy_date) ==
    LET res == add_stock_result(monitored_stocks, next_stock_id, code, price,
                                buy_date, now)
    IN  /\ HoldingRows(monitored_stocks, code) = {} => next_stock_id <= MaxStockId
        /\ monitored_stocks' = res.rows
        /\ next_stock_id' = IF res.ok THEN next_stock_id + 1 ELSE next_stock_id
        /\ last' = Call("add_stock", code, "none", price, res.ok, res.msg)
        /\ UNCHANGED <<now, sell_alerts, next_alert_id, pc, loc, gateVars, extVars>>

remove_stock(code, reason) ==
    LET res == remove_stock_result(monitored_stocks, code, reason, now)
    IN  /\ monitored_stocks' = res.rows
        /\ last' = Call("remove_stock", code, reason, 0, res.ok, res.msg)
        /\ UNCHANGED <<now, next_stock_id, sell_alerts, next_alert_id, pc, loc, gateVars, extVars>>

add_sell_alert(code, atype) ==
    LET res == add_sell_alert_result(sell_alerts, next_alert_id, code, atype, now)
    IN  /\ UnsentAlerts(sell_alerts, code, atype) = {} => next_alert_id <= MaxAlertId
        /\ sell_alerts' = res.alerts
        /\ next_alert_id' = IF res.ok THEN next_alert_id + 1 ELSE next_alert_id
        /\ last' = Call("add_sell_alert", code, atype, 0, res.ok, "none")
        /\ UNCHANGED <<now, monitored_stocks, next_stock_id, pc, loc, gateVars, extVars>>

mark_alert_sent(alert_id) ==
    /\ sell_alerts' = mark_alert_sent_result(sell_alerts, alert_id)
    /\ last' = Call("mark_alert_sent", "none", "none", alert_id, TRUE, "none")
    /\ UNCHANGED <<now, monitored_stocks, next_stock_id, next_alert_id, pc, loc, gateVars, extVars>>

clear_old_alerts(days) ==
    /\ sell_alerts' = clear_old_alerts_result(sell_alerts, days, now)
    /\ last' = Call("clear_old_alerts", "none", "none", days, TRUE, "none")
    /\ UNCHANGED <<now, monitored_stocks, next_stock_id, next_alert_id, pc, loc, gateVars, extVars>>

update_holding_days ==
    /\ monitored_stocks' = update_holding_days_result(monitored_stocks, now)
    /\ last' = Call("update_holding_days", "none", "none", 0, TRUE, "none")
    /\ UNCHANGED <<now, next_stock_id, sell_alerts, next_alert_id, pc, loc, gateVars,
                   extVars>>

\* One position in one cycle: the evaluator reads the holding row of the
\* symbol, takes the latest price and moving averages, picks the trigger and
\* hands it to add_sell_alert; the sample becomes the previous sample of the
\* next cycle.  take_profit, stop_loss and the entry range are the thresholds
\* configured for the position.
evaluate_position(code, cur, price, entered) ==
    \E r \in HoldingRows(monitored_stocks, code) :
        LET in   == EvalInput(code, r.holding_days, samples[code], cur, price,
                              EvalTakeProfit, EvalStopLoss, EvalEntryMin,
                              EvalEntryMax, entered)
            rule == FirstTrigger(in)
            res  == IF rule = "none"
                      THEN [alerts |-> sell_alerts, ok |-> FALSE]
                      ELSE add_sell_alert_result(sell_alerts, next_alert_id, code,
                                                 rule, now)
        IN  /\ next_alert_id <= MaxAlertId
            /\ sell_alerts' = res.alerts
            /\ next_alert_id' = IF res.ok THEN next_alert_id + 1 ELSE next_alert_id
            /\ samples' = [samples EXCEPT ![code] = cur]
            /\ cycle_in' = in
            /\ last' = Call("evaluate", code, rule, price, res.ok, "none")
            /\ UNCHANGED <<now, monitored_stocks, next_stock_id, pc, loc, gateVars,
                           mdVars, sessVars, loopVars>>

\* One stock of StockMonitorDatabase in one cycle: the price fetched is
\* stored by update_stock_price, the rules are applied to the thresholds of
\* the row, and the trigger is stored by add_notification unless
\* has_recent_notification finds one of the same type in the last 60 minutes.
\* The table has neither holding days nor moving averages, and its stocks are
\* candidates with an entry range.
evaluate_monitor(stock_id, price) ==
    \E r \in md_stocks :
        LET in   == EvalInput(r.symbol, 0, NoSample, NoSample, price, r.take_profit,
                              r.stop_loss, r.entry_min, r.entry_max, FALSE)
            rule == FirstTrigger(in)
            add  == /\ rule # "none"
                    /\ ~has_recent_notification(notifications, stock_id, rule,
                                                CoolDownMinutes, now)
        IN  /\ r.id = stock_id
            /\ Cardinality(price_history) < MaxSamples
            /\ md_stocks' = update_stock_price_rows(md_stocks, stock_id, price, now)
            /\ price_history' = update_stock_price_history(price_history,
                                     next_price_id, stock_id, price, now)
            /\ next_price_id' = next_price_id + 1
            /\ notifications' =
                  IF add THEN add_notification_result(notifications,
                                  next_notification_id, stock_id, rule, now)
                  ELSE notifications
            /\ next_notification_id' =
                  IF add THEN next_notification_id + 1 ELSE next_notification_id
            /\ cycle_in' = in
            /\ last' = Call("evaluate_monitor", r.symbol, rule, price, add, "none")
            /\ UNCHANGED <<now, monitored_stocks, next_stock_id, sell_alerts,
                           next_alert_id, pc, loc, gateVars, samples, next_md_id,
                           sessVars, loopVars>>

get_trading_session_call ==
    /\ session_out.called = "none"
    /\ session_out' = SessionOut("get_trading_session",
                                 get_trading_session(weekday, tod), FALSE)
    /\ UNCHANGED <<now, monitored_stocks, next_stock_id, sell_alerts, next_alert_id,
                   last, pc, loc, gateVars, evalVars, mdVars, weekday, tod,
                   loopVars>>

is_trading_time_call ==
    /\ session_out.called = "none"
    /\ session_out' = SessionOut("is_trading_time", NoSession.info,
                                 is_trading_time(weekday, tod))
    /\ UNCHANGED <<now, monitored_stocks, next_stock_id, sell_alerts, next_alert_id,
                   last, pc, loc, gateVars, evalVars, mdVars, weekday, tod,
                   loopVars>>

(* The clock: half an hour passes, or the next day begins *)

TickSlot ==
    /\ Slot(now) < MaxSlot
    /\ now' = now + SlotMinutes
    /\ last' = Call("tick", "none", "none", 0, TRUE, "none")
    /\ UNCHANGED <<monitored_stocks, next_stock_id, sell_alerts, next_alert_id, pc, loc, gateVars, extVars>>

TickDay ==
    /\ Day(now) < MaxDay
    /\ now' = (Day(now) + 1) * MinutesPerDay
    /\ last' = Call("tick", "none", "none", 0, TRUE, "none")
    /\ UNCHANGED <<monitored_stocks, next_stock_id, sell_alerts, next_alert_id, pc, loc, gateVars, extVars>>

----------------------------------------------------------------------------------------------------------------------------------------
(* Spec: the position table of LowPriceBullMonitor under add_stock and      *)
(* remove_stock called one after another.  No method touches both tables,   *)
(* so sell_alerts keeps the content the database file had when the monitor  *)
(* was constructed (CREATE TABLE IF NOT EXISTS keeps the rows of the file). *)

ExistingAlerts ==
    {{}, InsertAlert({}, 1, "600519", "ma_cross", 0)}

InitIdle ==
    /\ now = 0
    /\ last = Call("init", "none", "none", 0, TRUE, "none")
    /\ pc = WorkersIdle
    /\ loc = NoLoc

GateIdle ==
    /\ reply = <<>>
    /\ llm_fails = FALSE
    /\ has_position = FALSE
    /\ opened_today = FALSE
    /\ gate_out = NoOutput

StoresIdle ==
    /\ InitIdle
    /\ monitored_stocks = {}
    /\ next_stock_id = 1
    /\ sell_alerts = {}
    /\ next_alert_id = 1

Init ==
    /\ InitIdle
    /\ GateIdle
    /\ ExtIdle
    /\ monitored_stocks = {}
    /\ next_stock_id = 1
    /\ sell_alerts \in ExistingAlerts
    /\ next_alert_id = Cardinality(sell_alerts) + 1

Next ==
    \/ \E c \in Codes, p \in Prices, d \in BuyDates : add_stock(c, p, d)
    \/ \E c \in Codes, r \in Reasons : remove_stock(c, r)
    \/ TickDay

Spec == Init /\ [][Next]_vars

----------------------------------------------------------------------------
(* SpecAlerts: the alert table of LowPriceBullMonitor under add_sell_alert, *)
(* mark_alert_sent and clear_old_alerts called one after another.           *)

InitAlerts ==
    /\ InitIdle
    /\ GateIdle
    /\ ExtIdle
    /\ monitored_stocks = {}
    /\ next_stock_id = 1
    /\ sell_alerts = {}
    /\ next_alert_id = 1

NextAlerts ==
    \/ \E c \in Codes, x \in AlertTypes : add_sell_alert(c, x)
    \/ \E i \in 1..MaxAlertId : mark_alert_sent(i)
    \/ \E d \in PurgeDays : clear_old_alerts(d)
    \/ TickDay

SpecAlerts == InitAlerts /\ [][NextAlerts]_vars

----------------------------------------------------------------------------
(* SpecConc: two workers, each with its own connection, call add_sell_alert *)
(* on the shared database.  The SELECT runs outside any transaction; the    *)
(* INSERT opens one, which conn.commit() ends, and SQLite lets one writer   *)
(* in at a time: the SELECT is one step and INSERT with commit the next,    *)
(* and steps of the other worker may come between the two.                  *)

add_sell_alert_select(w, code, atype) ==
    /\ pc[w] = "idle"
    /\ next_alert_id + Cardinality({v \in Workers : pc[v] = "insert"}) <= MaxAlertId
    /\ IF UnsentAlerts(sell_alerts, code, atype) # {}
         THEN /\ last' = Call("add_sell_alert", code, atype, 0, FALSE, w)
              /\ UNCHANGED <<pc, loc, gateVars, extVars>>
         ELSE /\ pc' = [pc EXCEPT ![w] = "insert"]
              /\ loc' = [loc EXCEPT ![w] = [code |-> code, atype |-> atype]]
              /\ last' = Call("select", code, atype, 0, TRUE, w)
    /\ UNCHANGED <<now, monitored_stocks, next_stock_id, sell_alerts, next_alert_id,
                   gateVars, extVars>>

add_sell_alert_insert(w) ==
    /\ pc[w] = "insert"
    /\ sell_alerts' = InsertAlert(sell_alerts, next_alert_id, loc[w].code,
                                  loc[w].atype, now)
    /\ next_alert_id' = next_alert_id + 1
    /\ pc' = [pc EXCEPT ![w] = "idle"]
    /\ loc' = [loc EXCEPT ![w] = NoLoc[w]]
    /\ last' = Call("add_sell_alert", loc[w].code, loc[w].atype, 0, TRUE, w)
    /\ UNCHANGED <<now, monitored_stocks, next_stock_id, gateVars, extVars>>

NextConc ==
    \/ \E w \in Workers, c \in Codes, x \in AlertTypes : add_sell_alert_select(w, c, x)
    \/ \E w \in Workers : add_sell_alert_insert(w)
    \/ \E i \in 1..MaxAlertId : mark_alert_sent(i)

SpecConc == InitAlerts /\ [][NextConc]_vars

(* SpecCoolDown: alerts created, sent and triggered again as the clock moves *)
(* within a day and across days                                             *)

NextCoolDown ==
    \/ \E c \in Codes, x \in AlertTypes : add_sell_alert(c, x)
    \/ \E i \in 1..MaxAlertId : mark_alert_sent(i)
    \/ TickSlot
    \/ TickDay

SpecCoolDown == InitAlerts /\ [][NextCoolDown]_vars

----------------------------------------------------------------------------
(* SpecEval: one position, bought four or five days ago, is evaluated cycle *)
(* after cycle; update_holding_days runs before evaluations                *)

EvalBuyDates == {0 - 5, 0 - 4}

InitEval ==
    /\ InitIdle
    /\ GateIdle
    /\ ExtIdle
    /\ \E c \in Codes, d \in EvalBuyDates :
          monitored_stocks = add_stock_result({}, 1, c, 10, d, 0).rows
    /\ next_stock_id = 2
    /\ sell_alerts = {}
    /\ next_alert_id = 1

NextEval ==
    \/ update_holding_days
    \/ \E c \in Codes, cur \in MASamples, p \in EvalPrices, e \in BOOLEAN :
          evaluate_position(c, cur, p, e)

SpecEval == InitEval /\ [][NextEval]_vars

(* SpecDays: positions bought before, on and after the day they are added,  *)
(* with update_holding_days run as the days pass                            *)

DayBuyDates == {NULL, 0 - 3, 0, 2}

NextDays ==
    \/ \E c \in Codes, d \in DayBuyDates : add_stock(c, 10, d)
    \/ \E c \in Codes : remove_stock(c, "sold")
    \/ update_holding_days
    \/ TickDay

SpecDays == InitAlerts /\ [][NextDays]_vars

(* SpecSched: scheduler ticks start evaluations of the positions on two     *)
(* threads; an evaluation persists its trigger with add_sell_alert, whose   *)
(* SELECT and INSERT are separate steps.                                    *)

\* the threads whose evaluation of the position is still in flight
InFlightNever(run, code) == {}

InFlight(run, code) == {w \in Workers : run[w] = code}

\* a tick reaches a position: the evaluation starts on a free thread, or the
\* position is skipped because its earlier evaluation is in flight
scheduler_tick(w, code) ==
    /\ running[w] = "none"
    /\ IF InFlight(running, code) # {}
         THEN /\ last' = Call("tick", code, "skipped", 0, FALSE, w)
              /\ UNCHANGED running
         ELSE /\ running' = [running EXCEPT ![w] = code]
              /\ last' = Call("tick", code, "started", 0, TRUE, w)
    /\ UNCHANGED <<now, monitored_stocks, next_stock_id, sell_alerts, next_alert_id,
                   pc, loc, gateVars, evalVars, mdVars, sessVars, faults, cycle,
                   outbox>>

\* the evaluation of a thread returns
evaluation_done(w) ==
    /\ running[w] # "none"
    /\ pc[w] = "idle"
    /\ running' = [running EXCEPT ![w] = "none"]
    /\ last' = Call("evaluation_done", running[w], "none", 0, TRUE, w)
    /\ UNCHANGED <<now, monitored_stocks, next_stock_id, sell_alerts, next_alert_id,
                   pc, loc, gateVars, evalVars, mdVars, sessVars, faults, cycle,
                   outbox>>

NextSched ==
    \/ \E w \in Workers, c \in Codes : scheduler_tick(w, c)
    \/ \E w \in Workers, x \in AlertTypes :
          running[w] # "none" /\ add_sell_alert_select(w, running[w], x)
    \/ \E w \in Workers : add_sell_alert_insert(w)
    \/ \E w \in Workers : evaluation_done(w)
    \/ \E i \in 1..MaxAlertId : mark_alert_sent(i)

SpecSched == InitAlerts /\ [][NextSched]_vars

(* SpecDelivery: delivery passes over the alerts of LowPriceBullMonitor.  A  *)
(* pass reads get_pending_alerts and sends each alert it got; a send that   *)
(* the channel acknowledges is followed by mark_alert_sent, a send that     *)
(* fails changes nothing.                                                   *)

AlertIds(alerts) == {a.id : a \in alerts}

delivery_pass ==
    /\ outbox = {}
    /\ outbox' = AlertIds(get_pending_alerts(sell_alerts))
    /\ last' = Call("delivery_pass", "none", "none", Cardinality(outbox'), TRUE, "none")
    /\ UNCHANGED <<now, monitored_stocks, next_stock_id, sell_alerts, next_alert_id,
                   pc, loc, gateVars, evalVars, mdVars, sessVars, running, faults,
                   cycle>>

send(alert_id, acknowledged) ==
    /\ alert_id \in outbox
    /\ outbox' = outbox \ {alert_id}
    /\ sell_alerts' = IF acknowledged
                        THEN mark_alert_sent_result(sell_alerts, alert_id)
                        ELSE sell_alerts
    /\ last' = Call("send", "none", "none", alert_id, acknowledged, "none")
    /\ UNCHANGED <<now, monitored_stocks, next_stock_id, next_alert_id, pc, loc,
                   gateVars, evalVars, mdVars, sessVars, running, faults, cycle>>

NextDelivery ==
    \/ \E c \in Codes, x \in AlertTypes : add_sell_alert(c, x)
    \/ delivery_pass
    \/ \E i \in 1..MaxAlertId, ok \in BOOLEAN : send(i, ok)
    \/ \E d \in PurgeDays : clear_old_alerts(d)
    \/ TickDay

SpecDelivery == InitAlerts /\ [][NextDelivery]_vars

(* SpecTouch and SpecPurge: the calls of StockMonitorDatabase, in any order. *)
(* The connections never set PRAGMA foreign_keys, so SQLite does not        *)
(* enforce the REFERENCES monitored_stocks (id) of price_history and        *)
(* notifications.                                                           *)

MdPrices == {100, 123}
MaxPriceRows == 2                         \* rows of price_history, and of notifications

add_monitored_stock(symbol) ==
    /\ next_md_id <= MaxStockId
    /\ md_stocks' = add_monitored_stock_result(md_stocks, next_md_id, symbol,
                        EvalEntryMin, EvalEntryMax, EvalTakeProfit, EvalStopLoss)
    /\ next_md_id' = next_md_id + 1
    /\ last' = Call("add_monitored_stock", symbol, "none", next_md_id, TRUE, "none")
    /\ UNCHANGED <<now, monitored_stocks, next_stock_id, sell_alerts, next_alert_id,
                   pc, loc, gateVars, evalVars, price_history, next_price_id,
                   notifications, next_notification_id, sessVars, loopVars>>

update_stock_price(stock_id, price) ==
    /\ next_price_id <= MaxPriceRows
    /\ md_stocks' = update_stock_price_rows(md_stocks, stock_id, price, now)
    /\ price_history' = update_stock_price_history(price_history, next_price_id,
                                                   stock_id, price, now)
    /\ next_price_id' = next_price_id + 1
    /\ last' = Call("update_stock_price", "none", "none", stock_id, TRUE, "none")
    /\ UNCHANGED <<now, monitored_stocks, next_stock_id, sell_alerts, next_alert_id,
                   pc, loc, gateVars, evalVars, next_md_id, notifications,
                   next_notification_id, sessVars, loopVars>>

update_last_checked(stock_id) ==
    /\ md_stocks' = update_last_checked_result(md_stocks, stock_id, now)
    /\ last' = Call("update_last_checked", "none", "none", stock_id, TRUE, "none")
    /\ UNCHANGED <<now, monitored_stocks, next_stock_id, sell_alerts, next_alert_id,
                   pc, loc, gateVars, evalVars, next_md_id, price_history,
                   next_price_id, notifications, next_notification_id, sessVars,
                   loopVars>>

add_notification(stock_id, type) ==
    /\ next_notification_id <= MaxPriceRows
    /\ notifications' = add_notification_result(notifications, next_notification_id,
                                                stock_id, type, now)
    /\ next_notification_id' = next_notification_id + 1
    /\ last' = Call("add_notification", "none", type, stock_id, TRUE, "none")
    /\ UNCHANGED <<now, monitored_stocks, next_stock_id, sell_alerts, next_alert_id,
                   pc, loc, gateVars, evalVars, md_stocks, next_md_id, price_history,
                   next_price_id, sessVars, loopVars>>

remove_monitored_stock(stock_id) ==
    LET res == remove_monitored_stock_result(md_stocks, price_history,
                                             notifications, stock_id)
    IN  /\ md_stocks' = res.rows
        /\ price_history' = res.history
        /\ notifications' = res.notes
        /\ last' = Call("remove_monitored_stock", "none", "none", stock_id, res.ok,
                        "none")
        /\ UNCHANGED <<now, monitored_stocks, next_stock_id, sell_alerts,
                       next_alert_id, pc, loc, gateVars, evalVars, next_md_id,
                       next_price_id, next_notification_id, sessVars, loopVars>>

InitMdStore ==
    /\ StoresIdle
    /\ GateIdle
    /\ ExtIdle

\* prices recorded, or not when the fetch failed, as the clock advances
NextTouch ==
    \/ add_monitored_stock("600519")
    \/ \E i \in 1..MaxStockId, p \in MdPrices : update_stock_price(i, p)
    \/ \E i \in 1..MaxStockId : update_last_checked(i)
    \/ TickSlot

SpecTouch == InitMdStore /\ [][NextTouch]_vars

\* stocks added and removed while prices and notifications are recorded
NextPurge ==
    \/ add_monitored_stock("600519")
    \/ \E i \in 1..MaxStockId : update_stock_price(i, 100)
    \/ \E i \in 1..MaxStockId : add_notification(i, "take_profit")
    \/ \E i \in 1..MaxStockId : remove_monitored_stock(i)

SpecPurge == InitMdStore /\ [][NextPurge]_vars

(* SpecAddConc: two callers run add_stock at once, each on its own sqlite3   *)
(* connection.  The SELECT of lines 101-104 and the INSERT of lines 111-116  *)
(* are separate statements; the INSERT of the second caller waits for the   *)
(* commit of the first.  pc holds where a caller is: before the SELECT,     *)
(* before the INSERT, or returned (True; False because the stock is         *)
(* monitored already; False from the except clause).                        *)

add_stock_select(w) ==
    /\ pc[w] = "add_select"
    /\ IF HoldingRows(monitored_stocks, loc[w].code) # {}
         THEN /\ pc' = [pc EXCEPT ![w] = "add_exists"]
              /\ last' = Call("add_stock", loc[w].code, "none", 0, FALSE,
                              "already_monitored")
         ELSE /\ pc' = [pc EXCEPT ![w] = "add_insert"]
              /\ last' = Call("select", loc[w].code, "none", 0, TRUE, w)
    /\ UNCHANGED <<now, monitored_stocks, next_stock_id, sell_alerts, next_alert_id,
                   loc, gateVars, extVars>>

add_stock_insert(w) ==
    /\ pc[w] = "add_insert"
    /\ LET ins == monitored_stocks \cup
                    {NewStockRow(next_stock_id, loc[w].code, 10, Day(now), now)}
       IN  IF UniqueCodeStatus(ins)
             THEN /\ monitored_stocks' = ins
                  /\ next_stock_id' = next_stock_id + 1
                  /\ pc' = [pc EXCEPT ![w] = "add_true"]
                  /\ last' = Call("add_stock", loc[w].code, "none", 0, TRUE, "added")
             ELSE /\ pc' = [pc EXCEPT ![w] = "add_error"]
                  /\ last' = Call("add_stock", loc[w].code, "none", 0, FALSE,
                                  "add_failed")
                  /\ UNCHANGED <<monitored_stocks, next_stock_id>>
    /\ UNCHANGED <<now, sell_alerts, next_alert_id, loc, gateVars, extVars>>

\* the row a stock code has before the calls: none, a removed one, a holding one
StockRowsOf(code, id, status) ==
    IF status = "none" THEN {}
    ELSE {[NewStockRow(id, code, 10, 0, 0) EXCEPT
              !.status = status,
              !.remove_time = IF status = "removed" THEN 0 ELSE NULL,
              !.remove_reason = IF status = "removed" THEN "manual" ELSE "NULL"]}

InitAddConc ==
    /\ now = 0
    /\ last = Call("init", "none", "none", 0, TRUE, "none")
    /\ pc = [w \in Workers |-> "add_select"]
    /\ loc \in [Workers -> {[code |-> c, atype |-> "none"] : c \in Codes}]
    /\ GateIdle
    /\ ExtIdle
    /\ \E s1 \in {"none", "removed", "holding"}, s2 \in {"none", "removed", "holding"} :
          monitored_stocks = StockRowsOf("600519", 1, s1) \cup StockRowsOf("000001", 2, s2)
    /\ next_stock_id = 3
    /\ sell_alerts = {}
    /\ next_alert_id = 1

NextAddConc ==
    \/ \E w \in Workers : add_stock_select(w)
    \/ \E w \in Workers : add_stock_insert(w)

SpecAddConc == InitAddConc /\ [][NextAddConc]_vars

(* SpecEpisodes: a stock added, removed and added again while alerts on it  *)
(* are created and marked sent                                              *)

NextEpisodes ==
    \/ add_stock("600519", 10, NULL)
    \/ remove_stock("600519", "manual")
    \/ add_sell_alert("600519", "ma_cross")
    \/ \E i \in 1..MaxAlertId : mark_alert_sent(i)
    \/ TickSlot

SpecEpisodes == InitAlerts /\ [][NextEpisodes]_vars

(* SpecSession: one query of the session at some instant of some day *)

InitSession ==
    /\ StoresIdle
    /\ GateIdle
    /\ EvalIdle
    /\ MdIdle
    /\ LoopIdle
    /\ weekday \in Weekdays
    /\ tod \in SessionTimes
    /\ session_out = NoSession

NextSession ==
    \/ get_trading_session_call
    \/ is_trading_time_call

SpecSession == InitSession /\ [][NextSession]_vars

(* SpecMonitor: one stock of StockMonitorDatabase with take-profit 12.00    *)
(* and stop-loss 9.50 is evaluated in up to MaxSamples cycles               *)

MdEntryRanges == {[min |-> 90, max |-> 94], [min |-> 100, max |-> 110]}

InitMonitor ==
    /\ StoresIdle
    /\ GateIdle
    /\ EvalIdle
    /\ SessIdle
    /\ LoopIdle
    /\ \E e \in MdEntryRanges :
          md_stocks = add_monitored_stock_result({}, 1, "600519", e.min, e.max,
                                                 EvalTakeProfit, EvalStopLoss)
    /\ next_md_id = 2
    /\ price_history = {}
    /\ next_price_id = 1
    /\ notifications = {}
    /\ next_notification_id = 1

NextMonitor ==
    \/ \E i \in 1..MaxStockId, p \in EvalPrices : evaluate_monitor(i, p)
    \/ TickSlot

SpecMonitor == InitMonitor /\ [][NextMonitor]_vars

(* SpecParse: _parse_decision applied to a reply of the model.              *)
(* A reply is prose, an opening fence, a body, a closing fence and prose,   *)
(* each part optional; the body is any sequence of at most MaxBodyLen       *)
(* tokens, or a payload with a nested object.                               *)

SeqsUpTo(S, n) == UNION {[1..k -> S] : k \in 0..n}

BodyTokens == MemberTokens \cup ScalarTokens \cup {"{", "}", "w"}

NestedBodies ==
    {<<"{", "m_sell", "k:", "{", "}", "}">>,
     <<"{", "k:", "{", "m_sell", "}", "}">>,
     <<"{", "m_noreason", "k:", "{", "}", "}">>}

Bodies == SeqsUpTo(BodyTokens, MaxBodyLen) \cup NestedBodies

Prefixes == {<<>>, <<"w">>}

Openers == {<<>>, <<"FJ">>, <<"FJ", "nl">>, <<"F">>, <<"F", "nl">>}

Closers == {<<>>, <<"nl", "F">>}

Reply(pre, open, body, close, post) == pre \o open \o body \o close \o post

InitParse ==
    /\ StoresIdle
    /\ ExtIdle
    /\ \E pre \in Prefixes, open \in Openers, body \in Bodies,
          close \in Closers, post \in Prefixes :
            reply = Reply(pre, open, body, close, post)
    /\ llm_fails = FALSE
    /\ has_position = FALSE
    /\ opened_today = FALSE
    /\ gate_out = NoOutput

parse_decision_call ==
    /\ ~gate_out.done
    /\ gate_out' = LET d == _parse_decision(reply)
                   IN  Output(TRUE, ~d.raised, "none", NoOutput.prompt, d)
    /\ UNCHANGED <<now, monitored_stocks, next_stock_id, sell_alerts, next_alert_id,
                   last, pc, loc, reply, llm_fails, has_position, opened_today,
                   extVars>>

SpecParse == InitParse /\ [][parse_decision_call]_vars

(* SpecGate: one call of analyze_stock_and_decide *)

GateReplies ==
    {pre \o open \o body \o close :
        pre \in {<<>>, <<"w">>},
        open \in {<<>>, <<"FJ", "nl">>, <<"F", "nl">>},
        body \in {<<"{", m, "}">> : m \in MemberTokens} \cup {<<"w">>, <<"num">>},
        close \in {<<>>, <<"nl", "F">>}}

InitGate ==
    /\ StoresIdle
    /\ ExtIdle
    /\ reply \in GateReplies
    /\ llm_fails \in BOOLEAN
    /\ has_position \in BOOLEAN
    /\ opened_today \in {b \in BOOLEAN : b => has_position}
    /\ gate_out = NoOutput

\* line 215 reads the session, which goes into the prompt only; the result
\* is that of the try block of lines 353-371
analyze_stock_and_decide ==
    /\ ~gate_out.done
    /\ session_out' = SessionOut("analyze_stock_and_decide",
                                 get_trading_session(weekday, tod), FALSE)
    /\ gate_out' = analyze_stock_and_decide_result(has_position, llm_fails, reply)
    /\ UNCHANGED <<now, monitored_stocks, next_stock_id, sell_alerts, next_alert_id,
                   last, pc, loc, reply, llm_fails, has_position, opened_today,
                   evalVars, mdVars, weekday, tod, loopVars>>

SpecGate == InitGate /\ [][analyze_stock_and_decide]_vars

(* SpecGateSession: one decision call at some instant of some day *)

InitGateSession ==
    /\ StoresIdle
    /\ EvalIdle
    /\ MdIdle
    /\ LoopIdle
    /\ weekday \in Weekdays
    /\ tod \in SessionTimes
    /\ session_out = NoSession
    /\ reply \in GateReplies
    /\ llm_fails \in BOOLEAN
    /\ has_position \in BOOLEAN
    /\ opened_today = FALSE
    /\ gate_out = NoOutput

SpecGateSession == InitGateSession /\ [][analyze_stock_and_decide]_vars

(* SpecCycle: one cycle over the positions of CycleOrder.  For each position *)
(* the cycle fetches the market data and, when it has them, asks            *)
(* analyze_stock_and_decide for a decision; faults says which of the two    *)
(* external calls fails for the position.                                   *)

Faults == {"none", "fetch", "llm"}

\* an exception left the call instead of a return value
Raised(out) == out.decision.raised

\* the value the cycle keeps for a position
CycleResult(out) == IF out.success THEN "decided" ELSE "failed"

cycle_step ==
    /\ ~cycle.aborted
    /\ cycle.next <= Len(CycleOrder)
    /\ LET code == CycleOrder[cycle.next]
           out  == analyze_stock_and_decide_result(has_position,
                                                   faults[code] = "llm", reply)
       IN  IF faults[code] = "fetch"
             THEN /\ cycle' = [cycle EXCEPT !.next = @ + 1,
                                            !.results[code] = "fetch_failed"]
                  /\ last' = Call("cycle_step", code, "fetch_failed", 0, FALSE, "none")
                  /\ UNCHANGED <<gate_out, session_out>>
             ELSE /\ session_out' = SessionOut("analyze_stock_and_decide",
                                               get_trading_session(weekday, tod), FALSE)
                  /\ gate_out' = out
                  /\ last' = Call("cycle_step", code, CycleResult(out), 0,
                                  out.success, out.error)
                  /\ cycle' = IF Raised(out)
                                THEN [cycle EXCEPT !.aborted = TRUE]
                                ELSE [cycle EXCEPT !.next = @ + 1,
                                                   !.results[code] = CycleResult(out)]
    /\ UNCHANGED <<now, monitored_stocks, next_stock_id, sell_alerts, next_alert_id,
                   pc, loc, reply, llm_fails, has_position, opened_today, evalVars,
                   mdVars, weekday, tod, running, faults, outbox>>

InitCycle ==
    /\ StoresIdle
    /\ EvalIdle
    /\ MdIdle
    /\ SessIdle
    /\ SchedIdle
    /\ DeliveryIdle
    /\ reply \in GateReplies
    /\ llm_fails = FALSE
    /\ has_position \in BOOLEAN
    /\ opened_today = FALSE
    /\ gate_out = NoOutput
    /\ faults \in [Codes -> Faults]
    /\ cycle = NoCycleRun

SpecCycle == InitCycle /\ [][cycle_step]_vars

----------------------------------------------------------------------------
(* Claims on the position table, checked under Spec *)

RowsOf(rows, code) == {r \in rows : r.stock_code = code}

\* C1: after any sequence of add_stock and remove_stock calls every symbol has
\* at most one row with status holding.
C1_OneHoldingPerSymbol ==
    \A c \in Codes : Cardinality(HoldingRows(monitored_stocks, c)) <= 1

\* a symbol that was removed and added again: one holding and one removed row
C1_Witness ==
    \E c \in Codes :
        /\ Cardinality(HoldingRows(monitored_stocks, c)) = 1
        /\ RemovedRows(monitored_stocks, c) # {}
        /\ last.op = "add_stock" /\ last.code = c /\ last.ok

\* C7: remove_stock on a symbol without a holding row returns the failure
\* "not monitored" and leaves both tables as they were, a removed row of that
\* symbol included.
C7_RemoveMissingFails ==
    [][(last'.op = "remove_stock"
          /\ HoldingRows(monitored_stocks, last'.code) = {})
        => /\ ~last'.ok
           /\ last'.msg = "not_monitored"
           /\ monitored_stocks' = monitored_stocks
           /\ sell_alerts' = sell_alerts]_vars

\* a failed remove of a symbol that has a removed row, while an alert is stored
C7_Witness ==
    /\ last.op = "remove_stock" /\ ~last.ok /\ last.msg = "not_monitored"
    /\ RemovedRows(monitored_stocks, last.code) # {}
    /\ HoldingRows(monitored_stocks, last.code) = {}
    /\ sell_alerts # {}

C9_RemoveTransitions ==
    [][(last'.op = "remove_stock" /\ last'.ok)
        => \E h \in HoldingRows(monitored_stocks, last'.code) :
             /\ HoldingRows(monitored_stocks', last'.code) = {}
             /\ RemovedRows(monitored_stocks', last'.code) =
                   {[h EXCEPT !.status = "removed", !.remove_time = now,
                              !.remove_reason = last'.text]}
             /\ \A c \in Codes \ {last'.code} :
                   RowsOf(monitored_stocks', c) = RowsOf(monitored_stocks, c)]_vars

\* a successful remove that deleted a stale removed row: the symbol was added
\* twice, and its only row is the second one, removed with reason "sold"
C9_Witness ==
    /\ last.op = "remove_stock" /\ last.ok /\ last.text = "sold"
    /\ \E r \in monitored_stocks :
          /\ RowsOf(monitored_stocks, last.code) = {r}
          /\ r.status = "removed" /\ r.remove_reason = "sold"
          /\ r.id = 2 /\ next_stock_id = 3
          /\ monitored_stocks = {r}

\* C10: every add_stock of a symbol without a holding row succeeds and every
\* remove_stock of a symbol with a holding row succeeds, whatever removed rows
\* are left from earlier rounds.
C10_ReAddPermitted ==
    [][/\ (last'.op = "add_stock"
            /\ HoldingRows(monitored_stocks, last'.code) = {}) => last'.ok
       /\ (last'.op = "remove_stock"
            /\ HoldingRows(monitored_stocks, last'.code) # {}) => last'.ok]_vars

\* the second remove of a round add, remove, add, remove on one symbol has
\* succeeded: the row left for the symbol is the one of the second add
C10_Witness ==
    /\ last.op = "remove_stock" /\ last.ok
    /\ \E r \in monitored_stocks :
          /\ RowsOf(monitored_stocks, last.code) = {r}
          /\ r.status = "removed"
          /\ r.id >= 2
          /\ r.add_time > 0

----------------------------------------------------------------------------
(* Claims on the alert table, checked under SpecAlerts and SpecConc *)

\* C2: after any sequence of add_sell_alert, mark_alert_sent and
\* clear_old_alerts calls there is at most one unsent alert per (stock code,
\* alert type), and add_sell_alert for a pair that has an unsent alert returns
\* False and inserts nothing.
C2_OneUnsentPerPair ==
    [][/\ \A c \in Codes, x \in AlertTypes :
            Cardinality(UnsentAlerts(sell_alerts', c, x)) <= 1
       /\ (last'.op = "add_sell_alert"
            /\ UnsentAlerts(sell_alerts, last'.code, last'.text) # {})
           => (~last'.ok /\ sell_alerts' = sell_alerts
                         /\ next_alert_id' = next_alert_id)]_vars

\* a refused add_sell_alert for a pair with one unsent alert and an earlier,
\* sent alert: created, marked sent, created again, then triggered once more
C2_Witness ==
    /\ last.op = "add_sell_alert" /\ ~last.ok
    /\ Cardinality(UnsentAlerts(sell_alerts, last.code, last.text)) = 1
    /\ \E a \in sell_alerts :
          a.stock_code = last.code /\ a.alert_type = last.text /\ a.is_sent = 1

\* C3: the check for an unsent alert and the insert are atomic per pair: with
\* two workers calling add_sell_alert concurrently, no interleaving leaves two
\* unsent alerts for one (stock code, alert type).
C3_AtomicCreate ==
    \A c \in Codes, x \in AlertTypes :
        Cardinality(UnsentAlerts(sell_alerts, c, x)) <= 1

\* C4: when add_sell_alert is called for a pair that has a sent alert, it
\* creates nothing if that alert is younger than the cool-down window, and
\* exactly one alert if the window has passed (and no unsent alert exists).
C4_CoolDown ==
    [][last'.op = "add_sell_alert"
        => LET sent   == {a \in sell_alerts : /\ a.stock_code = last'.code
                                              /\ a.alert_type = last'.text
                                              /\ a.is_sent = 1}
               within == \E a \in sent : now - a.alert_time < CoolDownMinutes
           IN  /\ within => sell_alerts' = sell_alerts
               /\ (sent # {} /\ ~within
                     /\ UnsentAlerts(sell_alerts, last'.code, last'.text) = {})
                   => /\ sell_alerts \subseteq sell_alerts'
                      /\ Cardinality(sell_alerts' \ sell_alerts) = 1]_vars

----------------------------------------------------------------------------
(* Claims on the decision layer, checked under SpecGate and SpecParse *)

\* the payload _parse_decision finds in a reply: a JSON object that has the
\* three required fields
PayloadFound(text) ==
    LET loaded == JsonLoads(ExtractJson(text))
    IN  loaded.kind = "object" /\ RequiredFields \subseteq loaded.keys

PayloadOf(text) == JsonLoads(ExtractJson(text)).val

\* C5: when analyze_stock_and_decide is called for a position bought on the
\* day of the call and the payload of the reply has action SELL, the decision
\* returned has action HOLD, the confidence of the payload, and a reasoning
\* that carries the override.
C5_TPlusOneGate ==
    (/\ gate_out.done /\ gate_out.success
     /\ has_position /\ opened_today
     /\ PayloadFound(reply) /\ PayloadOf(reply).action = "SELL")
    => /\ gate_out.decision.action = "HOLD"
       /\ gate_out.decision.confidence = PayloadOf(reply).confidence
       /\ gate_out.decision.reasoning # "model"

\* C6: _parse_decision returns a decision for every reply and never raises;
\* when it finds no payload with the required fields, the decision is HOLD
\* with confidence 0 and risk level high, and its reasoning records the
\* failure.
C6_FailClosed ==
    gate_out.done
    => /\ ~gate_out.decision.raised
       /\ gate_out.success
       /\ ~PayloadFound(reply)
          => /\ gate_out.decision.action = "HOLD"
             /\ gate_out.decision.confidence = 0
             /\ gate_out.decision.risk_level = "high"
             /\ gate_out.decision.reasoning = "parse_failed"

\* the reply was a JSON number in a json fence, on which the field check
\* raises TypeError, and the fallback decision came back
C6_Witness ==
    /\ gate_out.done
    /\ reply = <<"w", "FJ", "nl", "num", "nl", "F">>
    /\ gate_out.decision = FallbackDecision

----------------------------------------------------------------------------
(* Claims on the evaluator, checked under SpecEval and SpecMonitor *)

\* C12: the evaluation of a position in a cycle creates at most one alert;
\* its type is the first rule that fires in the order holding_days, ma_cross,
\* take_profit, stop_loss, entry, and when no rule fires nothing is created.
\* When holding_days and ma_cross both fire and the pair has no unsent alert,
\* exactly one alert is created and its type is holding_days.
C12_OneTriggerByPriority ==
    [][last'.op = "evaluate"
        => LET in    == cycle_in'
               new   == sell_alerts' \ sell_alerts
               first == IF Fires("holding_days", in) THEN "holding_days"
                        ELSE IF Fires("ma_cross", in) THEN "ma_cross"
                        ELSE IF Fires("take_profit", in) THEN "take_profit"
                        ELSE IF Fires("stop_loss", in) THEN "stop_loss"
                        ELSE IF Fires("entry", in) THEN "entry"
                        ELSE "none"
           IN  /\ sell_alerts \subseteq sell_alerts'
               /\ Cardinality(new) <= 1
               /\ last'.text = first
               /\ \A a \in new : a.stock_code = in.code /\ a.alert_type = first
               /\ first = "none" => new = {}
               /\ (/\ Fires("holding_days", in) /\ Fires("ma_cross", in)
                    /\ UnsentAlerts(sell_alerts, in.code, "holding_days") = {})
                   => \E a \in sell_alerts' :
                         new = {a} /\ a.alert_type = "holding_days"]_vars

\* a cycle in which the position is five days old and MA5 has just crossed
\* below MA20: one holding_days alert, no ma_cross alert
C12_Witness ==
    /\ last.op = "evaluate" /\ last.ok
    /\ Fires("holding_days", cycle_in) /\ Fires("ma_cross", cycle_in)
    /\ Cardinality(sell_alerts) = 1
    /\ \A a \in sell_alerts : a.alert_type = "holding_days"

\* the prices of price_history in the order they were recorded
PricesSeen ==
    [i \in 1..Cardinality(price_history) |->
        (CHOOSE h \in price_history : h.id = i).price]

----------------------------------------------------------------------------
(* Claims on holding_days, checked under SpecDays *)

\* C14: after update_holding_days every holding row stores the number of
\* whole days from its buy_date to today, and as the days pass the stored
\* holding_days of a holding row never decreases from one recomputation to
\* the next (a row not yet recomputed holds the column default 0).
C14_HoldingDaysExact ==
    [][/\ last'.op = "update_holding_days"
           => \A r \in monitored_stocks' :
                 r.status = "holding" => r.holding_days = Day(now) - r.buy_date
       /\ \A r \in monitored_stocks : \A r2 \in monitored_stocks' :
             (r2.id = r.id /\ r.status = "holding" /\ r2.status = "holding")
             => \/ r2.holding_days >= r.holding_days
                \/ r.holding_days = 0 /\ Day(now) < r.buy_date]_vars

\* a position bought three days before day 0, recomputed on day 0 and again
\* on day 1
C14_Witness ==
    /\ last.op = "update_holding_days"
    /\ Day(now) = 1
    /\ \E r \in monitored_stocks :
          r.status = "holding" /\ r.buy_date = 0 - 3 /\ r.holding_days = 4

\* C15: the holding_days stored for a holding row is never negative, also
\* for a row whose buy_date lies after today.
C15_HoldingDaysNonNegative ==
    \A r \in monitored_stocks : r.status = "holding" => r.holding_days >= 0

----------------------------------------------------------------------------
(* Claims on the sessions, checked under SpecSession and SpecGateSession *)

\* C16: get_trading_session returns one of the seven sessions for every
\* instant, and can_trade is true exactly when the session is the morning
\* session, the afternoon session or the closing window.
C16_CanTradeBySession ==
    session_out.called = "get_trading_session"
    => /\ session_out.info.session \in
            {"closed", "pre_open_auction", "morning", "lunch_break",
             "afternoon", "closing", "post_close"}
       /\ session_out.info.can_trade
            <=> session_out.info.session \in {"morning", "afternoon", "closing"}
       /\ weekday >= 5 <=> session_out.info.session = "closed"

\* a Wednesday at 09:29:59: the auction, in which no trade is possible
C16_Witness ==
    /\ session_out.called = "get_trading_session"
    /\ weekday = 2 /\ tod = time(9, 30) - 1
    /\ session_out.info.session = "pre_open_auction"
    /\ ~session_out.info.can_trade

\* C17: while the session has can_trade = false, analyze_stock_and_decide
\* returns no successful decision whose action is BUY or SELL.
C17_NoExecutableDecisionOffSession ==
    (gate_out.done /\ ~session_out.info.can_trade)
    => ~(gate_out.success /\ gate_out.decision.action \in {"BUY", "SELL"})

----------------------------------------------------------------------------
(* Claims on the scheduler, checked under SpecSched *)

\* C18: no two evaluations of the same position are in flight at the same
\* time: a tick that finds the earlier evaluation of a position still running
\* skips the position; so the overlapping add_sell_alert calls are never of
\* one position and no pair gets two unsent alerts.
C18_NoOverlappingEvaluation ==
    /\ \A c \in Codes : Cardinality({w \in Workers : running[w] = c}) <= 1
    /\ \A c \in Codes, x \in AlertTypes :
          Cardinality(UnsentAlerts(sell_alerts, c, x)) <= 1

\* a tick has just skipped a position whose evaluation is between the SELECT
\* and the INSERT of add_sell_alert
C18_Witness ==
    /\ last.op = "tick" /\ ~last.ok
    /\ \E w \in Workers : running[w] = last.code /\ pc[w] = "insert"

----------------------------------------------------------------------------
(* Claims on a cycle, checked under SpecCycle *)

\* C19: a failure of the external call of one position becomes the failure
\* value of that position: analyze_stock_and_decide returns success = false
\* with the error and raises nothing, the cycle is not aborted, and once the
\* cycle is over every position has a result, a decision included for each
\* position whose calls worked and whose reply carried a payload.
C19_FailureIsolation ==
    /\ ~cycle.aborted
    /\ ~Raised(gate_out)
    /\ (gate_out.done /\ last.op = "cycle_step" /\ faults[last.code] = "llm")
          => (~gate_out.success /\ gate_out.error = "api_error")
    /\ \A k \in 1..Len(CycleOrder) :
          k < cycle.next
          => LET code == CycleOrder[k]
             IN  /\ cycle.results[code] # "none"
                 /\ faults[code] = "fetch" <=> cycle.results[code] = "fetch_failed"
                 /\ faults[code] = "llm" => cycle.results[code] = "failed"
                 /\ (faults[code] = "none" /\ PayloadFound(reply))
                       => cycle.results[code] = "decided"

\* the decision call of the first position failed and the second position
\* got its decision
C19_Witness ==
    /\ cycle.next > Len(CycleOrder)
    /\ faults[CycleOrder[1]] = "llm"
    /\ cycle.results[CycleOrder[1]] = "failed"
    /\ cycle.results[CycleOrder[2]] = "decided"
    /\ gate_out.success

----------------------------------------------------------------------------
(* Claims on delivery, checked under SpecDelivery *)

\* C20: a delivery pass is offered exactly the alerts that are unsent; an
\* alert stops being pending only by an acknowledged send followed by
\* mark_alert_sent, and is never pending again afterwards; a failed send
\* leaves the alert unsent; and no send is made for an alert whose is_sent
\* flag is already 1.
C20_AtLeastOnceDelivery ==
    [][LET Pending  == AlertIds(get_pending_alerts(sell_alerts))
           PendingN == AlertIds(get_pending_alerts(sell_alerts'))
           Unsent   == {a.id : a \in {b \in sell_alerts : b.is_sent = 0}}
           UnsentN  == {a.id : a \in {b \in sell_alerts' : b.is_sent = 0}}
           Sending  == last'.op = "send" /\ last'.num \in outbox
                          /\ last'.num \notin outbox'
       IN  /\ Pending = Unsent
           /\ (last'.op = "delivery_pass" /\ outbox = {}) => outbox' = Unsent
           /\ Sending => last'.num \in Unsent
           /\ (Sending /\ ~last'.ok) => last'.num \in UnsentN
           /\ \A id \in Unsent \ UnsentN :
                 Sending /\ last'.ok /\ last'.num = id
           /\ \A id \in 1..(next_alert_id - 1) :
                 id \notin Pending => id \notin PendingN]_vars

\* a send has failed, the pass is over and the alert is still pending for
\* the next pass
C20_Witness ==
    /\ last.op = "send" /\ ~last.ok
    /\ outbox = {}
    /\ last.num \in AlertIds(get_pending_alerts(sell_alerts))

----------------------------------------------------------------------------
(* Claims on the lifecycle of the rows, checked under Spec *)

\* C21: add_stock and remove_stock delete no row of monitored_stocks: every
\* row that exists before a call exists after it, as holding or as removed.
C21_RowsNeverDeleted ==
    [][\A r \in monitored_stocks :
          \E q \in monitored_stocks' :
              q.id = r.id /\ q.status \in {"holding", "removed"}]_vars

\* C22: mark_alert_sent for an id that no row of sell_alerts has reports a
\* failure, which the caller can tell from the result of a successful call.
C22_MarkSentMissingFails ==
    [][(/\ last' # last
        /\ last'.op = "mark_alert_sent"
        /\ last'.num \notin AlertIds(sell_alerts))
       => ~last'.ok]_vars

----------------------------------------------------------------------------
(* Claims on the ma_cross rule, checked under SpecEval *)

\* C23: a cycle reports ma_cross only when the position has a previous
\* sample with MA5 >= MA20 and the current sample has MA5 < MA20: not in the
\* first cycle of the position, and not in a cycle whose previous sample
\* already had MA5 below MA20.  A ma_cross alert is created in such a cycle
\* only.
C23_MACrossNeedsPriorSample ==
    [][last'.op = "evaluate"
        => LET code  == last'.code
               prev  == samples[code]
               cur   == samples'[code]
               cross == /\ prev # NoSample
                        /\ prev.ma5 >= prev.ma20
                        /\ cur.ma5 < cur.ma20
               new   == {a \in sell_alerts' \ sell_alerts : a.alert_type = "ma_cross"}
           IN  /\ last'.text = "ma_cross" => cross
               /\ new # {} => cross
               /\ prev = NoSample => last'.text # "ma_cross"
               /\ (prev # NoSample /\ prev.ma5 < prev.ma20)
                     => last'.text # "ma_cross"
               /\ (cross /\ ~Fires("holding_days", cycle_in'))
                     => last'.text = "ma_cross"]_vars

\* MA5 crossed below MA20 in an earlier cycle, which created the ma_cross
\* alert; in this cycle MA5 is still below MA20 and no rule fires
C23_Witness ==
    /\ last.op = "evaluate" /\ last.text = "none"
    /\ cycle_in.prev # NoSample
    /\ cycle_in.prev.ma5 < cycle_in.prev.ma20
    /\ cycle_in.cur.ma5 < cycle_in.cur.ma20
    /\ \E a \in sell_alerts : a.alert_type = "ma_cross" /\ a.stock_code = last.code

----------------------------------------------------------------------------
(* Claims on StockMonitorDatabase, checked under SpecTouch and SpecPurge *)

\* C24: update_last_checked(stock_id) changes the last_checked of that stock
\* and nothing else: its current_price, price_history, the notifications and
\* every other stock stay as they are.  update_stock_price(stock_id, price)
\* adds exactly one row to price_history and sets current_price and
\* last_checked of that stock only.
C24_TouchChangesLastCheckedOnly ==
    [][/\ (last' # last /\ last'.op = "update_last_checked")
            => /\ price_history' = price_history
               /\ notifications' = notifications
               /\ md_stocks' =
                     {IF r.id = last'.num THEN [r EXCEPT !.last_checked = now]
                      ELSE r : r \in md_stocks}
               /\ \A r \in md_stocks : \E q \in md_stocks' :
                     q.id = r.id /\ q.current_price = r.current_price
       /\ next_price_id' # next_price_id
            => /\ last'.op = "update_stock_price"
               /\ price_history \subseteq price_history'
               /\ Cardinality(price_history' \ price_history) = 1
               /\ \A h \in price_history' \ price_history :
                     /\ h.stock_id = last'.num
                     /\ \A q \in md_stocks' :
                           q.id = last'.num
                           => q.current_price = h.price /\ q.last_checked = now
               /\ \A r \in md_stocks :
                     r.id # last'.num => r \in md_stocks'
               /\ notifications' = notifications]_vars

\* a stock whose price was recorded in an earlier slot has just been touched:
\* its price is the recorded one, its last_checked is later than its sample
C24_Witness ==
    /\ last.op = "update_last_checked"
    /\ Cardinality(md_stocks) = 2
    /\ \E r \in md_stocks, h \in price_history :
          /\ r.id = last.num /\ h.stock_id = r.id
          /\ r.current_price = h.price
          /\ r.last_checked = now /\ h.timestamp < now
          /\ \A g \in price_history : g.stock_id = r.id => g = h

\* C25: no row of price_history and no row of notifications refers to a
\* stock that was added and has been removed by remove_monitored_stock.
C25_NoOrphanRows ==
    LET Purged == {id \in 1..(next_md_id - 1) : \A r \in md_stocks : r.id # id}
    IN  /\ \A h \in price_history : h.stock_id \notin Purged
        /\ \A n \in notifications : n.stock_id \notin Purged

----------------------------------------------------------------------------
(* Claims on the values of a decision, checked under SpecGate *)

\* C26: every decision analyze_stock_and_decide returns has an action among
\* BUY, SELL and HOLD and a confidence from 0 to 100; a payload with another
\* action or confidence comes back as the fallback HOLD.
C26_DecisionValuesValidated ==
    (gate_out.done /\ gate_out.success)
    => /\ gate_out.decision.action \in {"BUY", "SELL", "HOLD"}
       /\ gate_out.decision.confidence \in 0..100

----------------------------------------------------------------------------
(* Claims on concurrent add_stock calls, checked under SpecAddConc *)

\* C27: when two add_stock calls for one stock code have both returned, the
\* code has exactly one holding row; at most one call returned True; and if
\* both calls passed the existence check (one of them ended in the except
\* clause) exactly one returned True and the other False.  At no time has a
\* code two holding rows.
C27_ConcurrentAddOneWinner ==
    /\ \A c \in Codes : Cardinality(HoldingRows(monitored_stocks, c)) <= 1
    /\ (/\ \A w \in Workers : pc[w] \in {"add_true", "add_exists", "add_error"}
        /\ \A v \in Workers, w \in Workers : loc[v].code = loc[w].code)
       => LET won == {w \in Workers : pc[w] = "add_true"}
              code == loc["w1"].code
          IN  /\ Cardinality(HoldingRows(monitored_stocks, code)) = 1
              /\ Cardinality(won) <= 1
              /\ won = {} <=> \A w \in Workers : pc[w] = "add_exists"
              /\ (\E w \in Workers : pc[w] = "add_error")
                    => Cardinality(won) = 1

\* both callers found no holding row, one inserted and returned True, the
\* INSERT of the other failed on the constraint and it returned False
C27_Witness ==
    /\ loc["w1"].code = loc["w2"].code
    /\ \E v \in Workers, w \in Workers : pc[v] = "add_true" /\ pc[w] = "add_error"
    /\ Cardinality(HoldingRows(monitored_stocks, loc["w1"].code)) = 1

----------------------------------------------------------------------------
(* Claims on alerts across holdings, checked under SpecEpisodes *)

\* C28: add_stock and remove_stock leave sell_alerts as it is, and
\* add_sell_alert(S, X) inserts nothing and returns False as long as an
\* unsent alert of (S, X) exists, whatever has happened to the rows of S in
\* monitored_stocks since that alert was created; once no unsent alert of
\* the pair is left it inserts one.
C28_DedupAcrossEpisodes ==
    [][/\ monitored_stocks' # monitored_stocks => sell_alerts' = sell_alerts
       /\ last'.op \in {"add_stock", "remove_stock"} => sell_alerts' = sell_alerts
       /\ (/\ last'.op = "add_sell_alert"
           /\ last' # last \/ next_alert_id' # next_alert_id)
          => IF UnsentAlerts(sell_alerts, last'.code, last'.text) # {}
               THEN sell_alerts' = sell_alerts /\ ~last'.ok
               ELSE /\ last'.ok
                    /\ sell_alerts \subseteq sell_alerts'
                    /\ Cardinality(sell_alerts' \ sell_alerts) = 1]_vars

\* an alert of an earlier holding is still unsent; the stock was removed and
\* added again later, and add_sell_alert for the pair has just returned False
C28_Witness ==
    /\ last.op = "add_sell_alert" /\ ~last.ok
    /\ \E a \in UnsentAlerts(sell_alerts, last.code, last.text) :
        \E r \in HoldingRows(monitored_stocks, last.code) :
        \E q \in RemovedRows(monitored_stocks, last.code) :
            /\ q.add_time <= a.alert_time
            /\ a.alert_time <= q.remove_time
            /\ q.remove_time < r.add_time

----------------------------------------------------------------------------
(* Further claims on the sessions, checked under SpecSession *)

\* C29: at every instant is_trading_time returns the boolean that
\* get_trading_session returns as can_trade, the instants 09:30, 11:30,
\* 13:00, 14:30 and 15:00 and the weekend included.
C29_TradingTimeAgreesWithSession ==
    /\ session_out.called = "is_trading_time"
         => session_out.is_trading = get_trading_session(weekday, tod).can_trade
    /\ session_out.called = "get_trading_session"
         => session_out.info.can_trade = is_trading_time(weekday, tod)

\* is_trading_time has returned True at 15:00:00 of a Friday, the last
\* instant of the closing window
C29_Witness ==
    /\ session_out.called = "is_trading_time"
    /\ weekday = 4 /\ tod = time(15, 0)
    /\ session_out.is_trading
    /\ get_trading_session(weekday, tod).session = "closing"

====
